---- MODULE Spec2Model ----
(***************************************************************************)
(* Model of rust/day1/src/main.rs: the digit trie (TrieNode), the scanner  *)
(* get_until_digit and the per-line calibrate.                             *)
(*                                                                         *)
(* A character is a one-character string, a &str is a sequence of          *)
(* characters, an Option<u32> is the empty sequence (None) or a            *)
(* one-element sequence (Some(v)).  A TrieNode is a record                 *)
(* [next, val] whose next is a function from characters to TrieNodes.      *)
(* A std::str::Chars cursor over a line is the number of characters        *)
(* already consumed (pos).                                                 *)
(***************************************************************************)
EXTENDS Integers, Sequences, FiniteSets, TLC

VARIABLES
    trie,       \* the TrieNode under test
    inserted,   \* history: key -> value of the most recent insert of key
    ninserts,   \* history: number of insert calls made on trie
    qtext,      \* test_trie: the text of the last get_digit query
    qres,       \* test_trie: what that query returned
    line,       \* calibrate: the line
    pos,        \* calibrate: characters consumed from `chars`
    pc,         \* calibrate: "idle", "first" (line 107), "rest" (line 110), "done"
    first,      \* calibrate: local `first`
    last,       \* calibrate: local `last`
    result,     \* calibrate: the returned value
    yielded,    \* history: the digits get_until_digit returned, with place and length
    attempted   \* history: the cursor positions at which get_digit was called

vars == <<trie, inserted, ninserts, qtext, qres, line, pos, pc, first, last,
          result, yielded, attempted>>

trieVars == <<trie, inserted, ninserts, qtext, qres>>
calVars == <<line, pos, pc, first, last, result, yielded, attempted>>

----------------------------------------------------------------------------
(* Bounds *)

\* pieces concatenated into one input line
MaxPieces == 3
\* length of a key inserted into a trie under test
MaxKeyLen == 2
\* insert calls on a trie under test
MaxInserts == 3

----------------------------------------------------------------------------
(* Option<u32> *)

None == <<>>
Some(v) == <<v>>

\* unwrap_or that falls back to one more than the default given
unwrap_or_off_by_one(opt, default) ==
    IF opt = None THEN default + 1 ELSE opt[1]

\* Option::unwrap_or
unwrap_or(opt, default) ==
    IF opt = None THEN default ELSE opt[1]

----------------------------------------------------------------------------
(* TrieNode *)

EmptyMap == [c \in {} |-> None]

\* TrieNode::new
new == [next |-> EmptyMap, val |-> None]

\* HashMap::insert on `next`
MapInsert(m, ch, node) ==
    [c \in DOMAIN m \cup {ch} |-> IF c = ch THEN node ELSE m[c]]

RECURSIVE insert_keep(_, _, _)
\* insert that does not overwrite a value already stored
insert_keep(self, key, val) ==
    IF key = <<>>
    THEN IF self.val = None THEN [self EXCEPT !.val = Some(val)] ELSE self
    ELSE LET ch == Head(key) IN
         IF ch \in DOMAIN self.next
         THEN [self EXCEPT !.next[ch] = insert_keep(self.next[ch], Tail(key), val)]
         ELSE LET new_node == insert_keep(new, Tail(key), val) IN
              [self EXCEPT !.next = MapInsert(self.next, ch, new_node)]

RECURSIVE insert(_, _, _)
\* TrieNode::insert
insert(self, key, val) ==
    IF key = <<>>
    THEN [self EXCEPT !.val = Some(val)]
    ELSE LET ch == Head(key) IN
         IF ch \in DOMAIN self.next
         THEN [self EXCEPT !.next[ch] = insert(self.next[ch], Tail(key), val)]
         ELSE LET new_node == insert(new, Tail(key), val) IN
              [self EXCEPT !.next = MapInsert(self.next, ch, new_node)]

\* the insert calls of with_digits with "2" registered under the value 3
BuiltinPairsTypo ==
    << << <<"o","n","e">>, 1 >>,          << <<"1">>, 1 >>,
       << <<"t","w","o">>, 2 >>,          << <<"2">>, 3 >>,
       << <<"t","h","r","e","e">>, 3 >>,  << <<"3">>, 3 >>,
       << <<"f","o","u","r">>, 4 >>,      << <<"4">>, 4 >>,
       << <<"f","i","v","e">>, 5 >>,      << <<"5">>, 5 >>,
       << <<"s","i","x">>, 6 >>,          << <<"6">>, 6 >>,
       << <<"s","e","v","e","n">>, 7 >>,  << <<"7">>, 7 >>,
       << <<"e","i","g","h","t">>, 8 >>,  << <<"8">>, 8 >>,
       << <<"n","i","n","e">>, 9 >>,      << <<"9">>, 9 >> >>

\* the insert calls of TrieNode::with_digits, in order
BuiltinPairs ==
    << << <<"o","n","e">>, 1 >>,          << <<"1">>, 1 >>,
       << <<"t","w","o">>, 2 >>,          << <<"2">>, 2 >>,
       << <<"t","h","r","e","e">>, 3 >>,  << <<"3">>, 3 >>,
       << <<"f","o","u","r">>, 4 >>,      << <<"4">>, 4 >>,
       << <<"f","i","v","e">>, 5 >>,      << <<"5">>, 5 >>,
       << <<"s","i","x">>, 6 >>,          << <<"6">>, 6 >>,
       << <<"s","e","v","e","n">>, 7 >>,  << <<"7">>, 7 >>,
       << <<"e","i","g","h","t">>, 8 >>,  << <<"8">>, 8 >>,
       << <<"n","i","n","e">>, 9 >>,      << <<"9">>, 9 >> >>

RECURSIVE InsertAll(_, _, _)
InsertAll(t, pairs, i) ==
    IF i > Len(pairs) THEN t
    ELSE InsertAll(insert(t, pairs[i][1], pairs[i][2]), pairs, i + 1)

\* TrieNode::with_digits
with_digits == InsertAll(new, BuiltinPairs, 1)

RECURSIVE get_digit_longest(_, _, _)
\* get_digit that descends to the deepest terminal (longest match)
get_digit_longest(self, chars, read_count) ==
    LET deeper ==
            IF chars # <<>> /\ Head(chars) \in DOMAIN self.next
            THEN get_digit_longest(self.next[Head(chars)], Tail(chars), read_count + 1)
            ELSE <<None, 0>>
    IN  IF deeper[1] # None THEN deeper
        ELSE IF self.val # None THEN <<Some(self.val[1]), read_count>>
        ELSE <<None, 0>>

RECURSIVE get_digit(_, _, _)
\* TrieNode::get_digit.  map_or evaluates its default (the descent) first and
\* then discards it when self.val is Some; the descent has no effect other
\* than on `chars`, which every caller passes as a scratch cursor.
get_digit(self, chars, read_count) ==
    LET descent ==
            IF chars # <<>>
            THEN LET ch == Head(chars) IN
                 IF ch \in DOMAIN self.next
                 THEN get_digit(self.next[ch], Tail(chars), read_count + 1)
                 ELSE <<None, 0>>
            ELSE <<None, 0>>
    IN  IF self.val # None THEN <<Some(self.val[1]), read_count>> ELSE descent

----------------------------------------------------------------------------
(* get_until_digit and calibrate *)

\* the cursor after `for _ in 0..read_count { chars.next(); }`, skipping one more
AdvancePastOneMore(p, read_count, len) ==
    IF p + read_count + 1 > len THEN len ELSE p + read_count + 1

\* the cursor after `for _ in 0..read_count { chars.next(); }`
AdvancePast(p, read_count, len) ==
    IF p + read_count > len THEN len ELSE p + read_count

\* one iteration of get_until_digit's loop that, on no-match, advances a clone
\* of the cursor instead of the cursor
GetUntilDigitIterStuck(t, ln, p) ==
    LET r == get_digit(t, SubSeq(ln, p + 1, Len(ln)), 0) IN
    IF r[1] # None
    THEN [brk |-> TRUE, ret |-> Some(r[1][1]), pos |-> AdvancePast(p, r[2], Len(ln)),
          read |-> r[2]]
    ELSE IF p < Len(ln)
         THEN [brk |-> FALSE, ret |-> None, pos |-> p, read |-> 0]
         ELSE [brk |-> TRUE, ret |-> None, pos |-> p, read |-> 0]

\* one iteration of get_until_digit's loop with the cursor at p:
\* brk = the loop breaks, ret = the value it breaks with, pos = the cursor after
GetUntilDigitIter(t, ln, p) ==
    LET r == get_digit(t, SubSeq(ln, p + 1, Len(ln)), 0) IN
    IF r[1] # None
    THEN [brk |-> TRUE, ret |-> Some(r[1][1]), pos |-> AdvancePast(p, r[2], Len(ln)),
          read |-> r[2]]
    ELSE IF p < Len(ln)
         THEN [brk |-> FALSE, ret |-> None, pos |-> p + 1, read |-> 0]
         ELSE [brk |-> TRUE, ret |-> None, pos |-> p, read |-> 0]

RECURSIVE get_until_digit(_, _, _)
\* get_until_digit: <<the returned Option, the cursor after>>
get_until_digit(t, ln, p) ==
    LET it == GetUntilDigitIter(t, ln, p) IN
    IF it.brk THEN <<it.ret, it.pos>> ELSE get_until_digit(t, ln, it.pos)

\* first * 100 + last
CalibrationValueHundreds(f, l) == f * 100 + l

\* calibrate's `first * 10 + last`
CalibrationValue(f, l) == f * 10 + l

RECURSIVE WhileLet(_, _, _, _)
\* calibrate's `while let Some(digit) = get_until_digit(..) { last = digit }`
WhileLet(t, ln, p, l) ==
    LET r == get_until_digit(t, ln, p) IN
    IF r[1] # None THEN WhileLet(t, ln, r[2], r[1][1]) ELSE l

\* calibrate
calibrate(t, ln) ==
    LET r == get_until_digit(t, ln, 0)
        f == unwrap_or(r[1], 0)
    IN  CalibrationValue(f, WhileLet(t, ln, r[2], f))

----------------------------------------------------------------------------
(* Inputs *)

\* fragments of the lines of tests::test_calibrate: spelled digits, digit
\* characters, a character on no trie edge, and the tails and stumps that
\* make overlapping ("eight"+"wo") and broken ("thre") spellings
Pieces ==
    { <<"o","n","e">>, <<"t","w","o">>, <<"e","i","g","h","t">>, <<"n","i","n","e">>,
      <<"2">>, <<"7">>, <<"x">>,
      <<"w","o">>, <<"n","e">>, <<"i","g","h","t">>, <<"t","h","r","e">> }

RECURSIVE Flatten(_)
Flatten(ss) == IF ss = <<>> THEN <<>> ELSE Head(ss) \o Flatten(Tail(ss))

Lines == { Flatten(ss) : ss \in UNION { [1..n -> Pieces] : n \in 0..MaxPieces } }

\* characters, keys, values and texts of the tries under test
TrieChars == {"a", "b"}
SeqsUpTo(S, n) == UNION { [1..k -> S] : k \in 0..n }
Keys == SeqsUpTo(TrieChars, MaxKeyLen) \ {<<>>}
Vals == {7, 9}
Texts == SeqsUpTo(TrieChars, MaxKeyLen + 1)

----------------------------------------------------------------------------
(* History *)

Record(m, key, val) ==
    [k \in DOMAIN m \cup {key} |-> IF k = key THEN val ELSE m[k]]

RECURSIVE RecordAll(_, _, _)
RecordAll(m, pairs, i) ==
    IF i > Len(pairs) THEN m
    ELSE RecordAll(Record(m, pairs[i][1], pairs[i][2]), pairs, i + 1)

----------------------------------------------------------------------------
(* test_trie: inserts and get_digit queries on a trie built from new() *)

TrieInit ==
    /\ trie = new
    /\ inserted = EmptyMap
    /\ ninserts = 0
    /\ qtext = <<>>
    /\ qres = <<>>
    /\ line = <<>>
    /\ pos = 0
    /\ pc = "idle"
    /\ first = 0
    /\ last = 0
    /\ result = 0
    /\ yielded = <<>>
    /\ attempted = {}

\* trie.insert(key, val)
Insert(key, val) ==
    /\ pc = "idle"
    /\ qres = <<>>
    /\ ninserts < MaxInserts
    /\ trie' = insert(trie, key, val)
    /\ inserted' = Record(inserted, key, val)
    /\ ninserts' = ninserts + 1
    /\ qtext' = <<>>
    /\ qres' = <<>>
    /\ UNCHANGED calVars

\* trie.get_digit(&mut text.chars(), 0), the returned pair held for assert_eq!
Query(text) ==
    /\ pc = "idle"
    /\ qres = <<>>
    /\ qtext' = text
    /\ qres' = get_digit(trie, text, 0)
    /\ UNCHANGED <<trie, inserted, ninserts>>
    /\ UNCHANGED calVars

\* the end of the assert_eq! statement: the returned pair is dropped
DropResult ==
    /\ pc = "idle"
    /\ qres # <<>>
    /\ qtext' = <<>>
    /\ qres' = <<>>
    /\ UNCHANGED <<trie, inserted, ninserts>>
    /\ UNCHANGED calVars

TrieNext ==
    \/ \E key \in Keys, val \in Vals : Insert(key, val)
    \/ \E text \in Texts : Query(text)
    \/ DropResult

TrieSpec == TrieInit /\ [][TrieNext]_vars

----------------------------------------------------------------------------
(* calibrate(&with_digits(), line), one step per iteration of the loop of   *)
(* get_until_digit                                                          *)

Init ==
    /\ trie = with_digits
    /\ inserted = RecordAll(EmptyMap, BuiltinPairs, 1)
    /\ ninserts = Len(BuiltinPairs)
    /\ qtext = <<>>
    /\ qres = <<>>
    /\ line \in Lines
    /\ pos = 0
    /\ pc = "first"
    /\ first = 0
    /\ last = 0
    /\ result = 0
    /\ yielded = <<>>
    /\ attempted = {}

Iter == GetUntilDigitIter(trie, line, pos)

\* line 107: get_until_digit breaks with Some(digit)
FirstMatch ==
    /\ pc = "first"
    /\ Iter.brk /\ Iter.ret # None
    /\ pos' = Iter.pos
    /\ first' = unwrap_or(Iter.ret, 0)
    /\ last' = first'
    /\ pc' = "rest"
    /\ yielded' = Append(yielded, [at |-> pos, digit |-> Iter.ret[1], len |-> Iter.read])
    /\ attempted' = attempted \cup {pos}
    /\ UNCHANGED <<line, result>>
    /\ UNCHANGED trieVars

\* line 107: get_until_digit loops on after a no-match
FirstAdvance ==
    /\ pc = "first"
    /\ ~Iter.brk
    /\ pos' = Iter.pos
    /\ attempted' = attempted \cup {pos}
    /\ UNCHANGED <<line, pc, first, last, result, yielded>>
    /\ UNCHANGED trieVars

\* line 107: get_until_digit breaks with None at the end of the line
FirstNone ==
    /\ pc = "first"
    /\ Iter.brk /\ Iter.ret = None
    /\ pos' = Iter.pos
    /\ first' = unwrap_or(Iter.ret, 0)
    /\ last' = first'
    /\ pc' = "rest"
    /\ attempted' = attempted \cup {pos}
    /\ UNCHANGED <<line, result, yielded>>
    /\ UNCHANGED trieVars

\* line 110: get_until_digit breaks with Some(digit); last = digit
RestMatch ==
    /\ pc = "rest"
    /\ Iter.brk /\ Iter.ret # None
    /\ pos' = Iter.pos
    /\ last' = Iter.ret[1]
    /\ yielded' = Append(yielded, [at |-> pos, digit |-> Iter.ret[1], len |-> Iter.read])
    /\ attempted' = attempted \cup {pos}
    /\ UNCHANGED <<line, pc, first, result>>
    /\ UNCHANGED trieVars

\* line 110: get_until_digit loops on after a no-match
RestAdvance ==
    /\ pc = "rest"
    /\ ~Iter.brk
    /\ pos' = Iter.pos
    /\ attempted' = attempted \cup {pos}
    /\ UNCHANGED <<line, pc, first, last, result, yielded>>
    /\ UNCHANGED trieVars

\* line 110: get_until_digit breaks with None; the while let ends, line 115
RestNone ==
    /\ pc = "rest"
    /\ Iter.brk /\ Iter.ret = None
    /\ pos' = Iter.pos
    /\ result' = CalibrationValue(first, last)
    /\ pc' = "done"
    /\ attempted' = attempted \cup {pos}
    /\ UNCHANGED <<line, first, last, yielded>>
    /\ UNCHANGED trieVars

Next ==
    \/ FirstMatch
    \/ FirstAdvance
    \/ FirstNone
    \/ RestMatch
    \/ RestAdvance
    \/ RestNone

Spec == Init /\ [][Next]_vars

\* calibrate is straight-line synchronous code: a step that can be taken is taken
FairSpec == Spec /\ WF_vars(Next)

\* the step machine computes what the function computes
StepsAgree == pc = "done" => result = calibrate(trie, line)

----------------------------------------------------------------------------
(* Digit tokens of a line, read off the line itself (no trie) *)

DigitChar(d) == <<"1","2","3","4","5","6","7","8","9">>[d]

Spelling(d) ==
    << <<"o","n","e">>, <<"t","w","o">>, <<"t","h","r","e","e">>,
       <<"f","o","u","r">>, <<"f","i","v","e">>, <<"s","i","x">>,
       <<"s","e","v","e","n">>, <<"e","i","g","h","t">>, <<"n","i","n","e">> >>[d]

\* the digit tokens: <<the characters, the value>>
Vocabulary ==
    { <<Spelling(d), d>> : d \in 1..9 } \cup { <<<<DigitChar(d)>>, d>> : d \in 1..9 }

\* key occurs in ln starting at the 0-based position p
OccursAt(key, ln, p) ==
    /\ p + Len(key) <= Len(ln)
    /\ SubSeq(ln, p + 1, p + Len(key)) = key

TokensAt(ln, p) == { kv \in Vocabulary : OccursAt(kv[1], ln, p) }

\* start positions of the digit tokens of ln
Occurrences(ln) == { p \in 0..(Len(ln) - 1) : TokensAt(ln, p) # {} }

TokenAt(ln, p) == CHOOSE kv \in TokensAt(ln, p) : TRUE
TokenLen(ln, p) == Len(TokenAt(ln, p)[1])
TokenVal(ln, p) == TokenAt(ln, p)[2]

SpelledOccurrences(ln) == { p \in Occurrences(ln) : TokenLen(ln, p) > 1 }

\* the tokens at p and q (p before q) share a character
Overlap(ln, p, q) == p < q /\ q < p + TokenLen(ln, p)

OverlapFree(ln) == \A p, q \in Occurrences(ln) : ~Overlap(ln, p, q)

MinOf(S) == CHOOSE x \in S : \A y \in S : x <= y
MaxOf(S) == CHOOSE x \in S : \A y \in S : x >= y

\* ln with the spelled token at p replaced by the digit character of its value
ReplaceAt(ln, p) ==
    SubSeq(ln, 1, p) \o <<DigitChar(TokenVal(ln, p))>>
        \o SubSeq(ln, p + TokenLen(ln, p) + 1, Len(ln))

YieldedAt == { yielded[i].at : i \in DOMAIN yielded }

----------------------------------------------------------------------------
(* Claims *)

\* C1: when two spelled tokens of the line share a character, the scan
\* recognizes both of them (both are yielded by get_until_digit).
C1_OverlapRecognized ==
    pc = "done" =>
        \A p, q \in SpelledOccurrences(line) :
            Overlap(line, p, q) => p \in YieldedAt /\ q \in YieldedAt

\* C2: on a line with a digit token, calibrate returns 10*d_first + d_last for
\* the tokens with the smallest and the largest start position.
C2_OrderPreservation ==
    (pc = "done" /\ Occurrences(line) # {}) =>
        result = 10 * TokenVal(line, MinOf(Occurrences(line)))
                    + TokenVal(line, MaxOf(Occurrences(line)))

\* C3: calibrate returns on every line (no step of it is stuck before the
\* return) and the value returned is an integer in 0..99.
C3_Totality ==
    /\ pc = "done" => result \in 0..99
    /\ pc \in {"first", "rest"} => ENABLED Next

C3_Witness ==
    /\ pc = "done"
    /\ \E i \in 1..Len(line) : line[i] = "x"
    /\ result = 99

\* C4: a line with no digit token, the empty line included, gives exactly 0.
C4_NoDigitLine ==
    (pc = "done" /\ Occurrences(line) = {}) => result = 0

C4_Witness ==
    pc = "done" /\ Occurrences(line) = {} /\ Len(line) >= 4 /\ result = 0

\* C5 as stated: replacing any occurrence of a spelled token by its digit
\* character leaves the result of calibrate unchanged.
C5_ParityEveryOccurrence ==
    pc = "done" =>
        \A p \in SpelledOccurrences(line) :
            calibrate(trie, ReplaceAt(line, p)) = result

\* an occurrence that shares no character with another spelled occurrence
Isolated(ln, p) ==
    \A q \in SpelledOccurrences(ln) : ~Overlap(ln, p, q) /\ ~Overlap(ln, q, p)

\* C5 amended: replacing an occurrence of a spelled token that shares no
\* character with another spelled-token occurrence by its digit character
\* leaves the result of calibrate unchanged.
C5_ParityIsolated ==
    pc = "done" =>
        \A p \in SpelledOccurrences(line) :
            Isolated(line, p) => calibrate(trie, ReplaceAt(line, p)) = result

C5_Witness ==
    /\ pc = "done"
    /\ \E p \in SpelledOccurrences(line) :
          /\ Isolated(line, p)
          /\ calibrate(trie, ReplaceAt(line, p)) = result
    /\ ~OverlapFree(line)

\* the inserted keys that are a prefix of text
PrefixKeys(text) == { k \in DOMAIN inserted : OccursAt(k, text, 0) }
ShortestKey(text) ==
    CHOOSE k \in PrefixKeys(text) : \A j \in PrefixKeys(text) : Len(k) <= Len(j)

\* C6: get_digit on the root with read_count 0 returns the value and length
\* of the shortest inserted key that is a prefix of the text, and (None, 0)
\* when no inserted key is a prefix of the text.
C6_MatchAt ==
    qres # <<>> =>
        qres = IF PrefixKeys(qtext) = {} THEN <<None, 0>>
               ELSE <<Some(inserted[ShortestKey(qtext)]), Len(ShortestKey(qtext))>>

C6_Witness ==
    /\ qres # <<>> /\ qres[1] # None
    /\ Cardinality(PrefixKeys(qtext)) >= 2
    /\ qres[2] < Len(qtext)

\* C7: after every attempt, match or no match, the cursor advances by exactly
\* one, so a match is attempted at every position 0..Len(line)-1.
C7_AttemptedEverywhere ==
    pc = "done" => \A p \in 0..(Len(line) - 1) : p \in attempted

RECURSIVE ValAt(_, _)
\* the value stored at the node reached from t along path, None when there
\* is no such node
ValAt(t, path) ==
    IF path = <<>> THEN t.val
    ELSE IF Head(path) \in DOMAIN t.next THEN ValAt(t.next[Head(path)], Tail(path))
    ELSE None

\* C8: after any inserts of non-empty keys, the root has no value and a node
\* has a value iff its path is an inserted key; the value is that of the most
\* recent insert of the key.
C8_TrieInvariant ==
    pc = "idle" =>
        /\ trie.val = None
        /\ \A path \in Texts :
              ValAt(trie, path) =
                  IF path \in DOMAIN inserted THEN Some(inserted[path]) ELSE None

C8_Witness ==
    /\ pc = "idle"
    /\ ninserts > Cardinality(DOMAIN inserted)
    /\ \E k, j \in DOMAIN inserted :
          /\ Len(k) < Len(j) /\ OccursAt(k, j, 0)
          /\ inserted[k] # inserted[j]

\* the cursor moves forward on every iteration that does not end the scan,
\* and the iterations that do not move it are the two that return None at
\* the end of the line
CursorAdvances ==
    \/ pos' > pos
    \/ pos' = pos /\ pos = Len(line) /\ pc' # pc

YieldedInOrder ==
    \A i, j \in DOMAIN yielded : i < j => yielded[i].at < yielded[j].at

\* C9: calibrate terminates; the cursor never decreases and moves forward on
\* every iteration before the end of the line; the digits are yielded in
\* left-to-right order.
C9_Termination ==
    /\ [][CursorAdvances]_vars
    /\ [](YieldedInOrder /\ pos <= Len(line))
    /\ <>(pc = "done")

C9_Witness ==
    pc = "done" /\ Len(yielded) >= 3 /\ Cardinality(attempted) < Len(line)

\* C10: on a line whose digit tokens share no character, every token is
\* yielded exactly once, in start-position order, and calibrate returns
\* 10*first + last of them (11*d for a single token of value d); a non-zero
\* result has no 0 digit.
C10_OverlapFreeLines ==
    pc = "done" =>
        /\ OverlapFree(line) =>
              /\ YieldedAt = Occurrences(line)
              /\ Len(yielded) = Cardinality(Occurrences(line))
              /\ YieldedInOrder
              /\ \A i \in DOMAIN yielded :
                    /\ yielded[i].digit = TokenVal(line, yielded[i].at)
                    /\ yielded[i].len = TokenLen(line, yielded[i].at)
              /\ Occurrences(line) # {} =>
                    result = 10 * TokenVal(line, MinOf(Occurrences(line)))
                                + TokenVal(line, MaxOf(Occurrences(line)))
              /\ \A p \in Occurrences(line) :
                    Occurrences(line) = {p} => result = 11 * TokenVal(line, p)
        /\ result # 0 => (result \div 10 # 0 /\ result % 10 # 0)

C10_Witness ==
    /\ pc = "done"
    /\ OverlapFree(line)
    /\ Cardinality(Occurrences(line)) = 3
    /\ Cardinality(SpelledOccurrences(line)) = 2
    /\ Len(yielded) = 3

====
